---- MODULE Spec2Model ----
(***************************************************************************)
(* KV-Sync: the download engine (src/core/downloader.py, SongDownloader),  *)
(* the per-song download threads and their dialog                          *)
(* (src/ui/currentDownloadsDialog.py) and the catalog scraper              *)
(* (src/core/scraper.py, SongScraper.scrape_all_pages).                    *)
(*                                                                         *)
(* The components share no state.  A behaviour exercises one of them;      *)
(* `component` says which.  SpecEngine, SpecDialog, SpecScraper and        *)
(* SpecPage are the behaviours of one component each, Spec is their union. *)
(***************************************************************************)
EXTENDS Integers, Sequences, FiniteSets, TLC

VARIABLES
    component,       \* "engine" | "dialog" | "scraper" | "page": the component exercised
    \* ---- SongDownloader.download_song: one downloader, one song, one directory
    pc,              \* position of download_song: idle | resolve | get | stream | post
    song,            \* the song dict: downloaded, extracted, file_path
    file_name,       \* sanitize_filename(artist, title, song_id), a token sequence
    zip_file,        \* what is at download_dir / file_name: none | partial | badzip | badcrc | valid
    bak,             \* whether the .zip.bak sibling exists
    dir_files,       \* the other file names in download_dir (token sequences)
    dir_order,       \* the order the file system lists a directory in, "unknown"
                     \* until a listing has shown it: asc | desc
    body,            \* the archive the server holds for the song, "unknown" until a
                     \* transfer has delivered it: valid | badzip | badcrc
    unzip_songs,     \* argument of the running (or last) call
    delete_zip,      \* argument of the running (or last) call
    attempt,         \* loop variable of "for attempt in range(1, max_retries + 1)"
    retry_count,     \* get_direct_download_url's counter
    chunks_left,     \* chunks iter_content has still to deliver
    emitted,         \* download_finished / download_failed emitted by this call
    requested,       \* whether this call has issued a network request
    last_error,      \* str(e) in the except branch that ended the loop
    listed_only,     \* every failed attempt so far: resolution, status or streaming
    calls,           \* download_song calls made so far
    dest_existed,    \* file_path.exists() as the running (or last) call saw it
    prev_verify,     \* whether the call before this one ended on a failed verification
    unzip_done,      \* this call extracted a completely written valid archive and removed it
    returned_files,  \* what handle_zip_extraction last returned in this call
    stop_requested,  \* DownloadTask.stop_requested for the download_song call
    total_length,    \* int(content-length) of the response being streamed, 0 for None
    downloaded_length, \* bytes written by the chunk loop so far
    progress_percent,\* the percent of the last download_progress of the chunk loop
    slept,           \* the time.sleep calls of the last step of download_song, each
                     \* the interval <<lo, hi>> its argument lies in
    \* ---- CurrentDownloadsDialog and its SingleDownloadThreads
    active_downloads,\* song_id -> [row, thread]
    downloads_table, \* the rows: the song a row was inserted for, its status text,
                     \* the song whose Retry button sits in its action cell
    timers,          \* pending QTimer.singleShot callbacks <<song_id, row>>, oldest first
    threads,         \* every SingleDownloadThread created: song, pc, stop_flag, ...
    signals,         \* finished / failed signals emitted and not yet delivered
    disk,            \* song_id -> what the thread's file holds: none | partial | full
    status,          \* song_id -> the state the dialog's handlers last gave the item:
                     \* Queued | InProgress | Completed | Failed
    \* ---- SongScraper.scrape_all_pages: one call
    page_result,     \* page -> the song ids scrape_songs_on_page returns for it, in row order
    last_song_id,    \* argument: a song id or "None"
    validate,        \* argument
    in_flight,       \* pages whose future has not completed
    done_queue,      \* completed futures as_completed has not yet yielded, oldest first
    consumed,        \* pages whose result the loop has taken, in that order
    all_songs,       \* the accumulated songs, each <<page, row>>
    found_last_song, \* the flag of line 111
    scr_pc,          \* loop | exit | returned
    \* ---- SongScraper.scrape_songs_on_page: one call
    purchased_songs, \* the rows (tr class vam) of the page, each with what its cells hold
    row_i,           \* the row the for loop is at
    songs,           \* the list built so far, then the list returned
    page_pc          \* loop | returned

engineVars == <<pc, song, file_name, zip_file, bak, dir_files, dir_order, body, unzip_songs,
                delete_zip, attempt, retry_count, chunks_left, emitted, requested,
                last_error, listed_only, calls, dest_existed, prev_verify, unzip_done,
                returned_files, stop_requested, slept, total_length, downloaded_length,
                progress_percent>>

\* the locals of the chunk loop, lines 81-92
streamVars == <<total_length, downloaded_length, progress_percent>>

dialogVars == <<active_downloads, downloads_table, timers, threads, signals, disk, status>>

scraperVars == <<page_result, last_song_id, validate, in_flight, done_queue, consumed,
                 all_songs, found_last_song, scr_pc>>

pageVars == <<purchased_songs, row_i, songs, page_pc>>

vars == <<component, engineVars, dialogVars, scraperVars, pageVars>>

----------------------------------------------------------------------------
(* Bounds of the model *)

\* download_song calls per behaviour
MaxCalls == 2
\* chunks a response body is delivered in
MaxChunks == 2
\* SingleDownloadThreads created per behaviour
MaxThreads == 3
\* pages of the catalog (get_total_pages) and rows per page
TotalPages == 3
MaxRows == 2

----------------------------------------------------------------------------
(* The songs the dialog is asked to download *)
Songs == {"KV1", "KV2", "KV3"}

(* File names are sequences of tokens; a token stands for the characters   *)
(* it spells, and no token but "42" spells the digits 42.                  *)

SongId == <<"KV", "42">>

FileNameZip == <<"Artist - Title - ", "KV", "42", ".zip">>
FileNameBare == <<"Artist - Title - ", "KV", "42">>

\* the entries of the archive the server delivers, in archive order
ArchiveEntries == << <<"track", "42", ".mp3">>, <<"readme", ".txt">> >>

\* a payload file of another item (KV142) that may already be in the directory
OtherItemFile == <<"song", "1", "42", ".mp3">>

\* pathlib's suffix: the last token when it is an extension
suffix(name) ==
    IF Len(name) > 0 /\ name[Len(name)] \in {".zip", ".mp3", ".cdg", ".txt", ".bak"}
    THEN name[Len(name)] ELSE ""

Range(s) == {s[i] : i \in 1..Len(s)}

----------------------------------------------------------------------------
(* SongDownloader *)

max_retries == 5
resolve_max_retries == 3

Completed == [sig |-> "download_finished", msg |-> ""]
Failed(m) == [sig |-> "download_failed", msg |-> m]

MsgNoUrl == "Failed to get real download URL"
MsgHttp == "HTTP Error"
MsgConn == "ConnectionError"
MsgIO == "OSError"
MsgVerify == "Zip file verification failed."
MsgNoFile == "FileNotFoundError"
MsgPermission == "PermissionError"

\* song_id[2:] if song_id.startswith("KV") else song_id
base_id_numeric == IF Head(SongId) = "KV" THEN Tail(SongId) ELSE SongId

\* f.name.replace(base_id_numeric, "KV" + base_id_numeric)
RECURSIVE replace_id(_)
replace_id(name) ==
    IF name = <<>> THEN <<>>
    ELSE IF <<Head(name)>> = base_id_numeric
         THEN <<"KV">> \o base_id_numeric \o replace_id(Tail(name))
         ELSE <<Head(name)>> \o replace_id(Tail(name))

\* base_id_numeric in f.name and f.suffix in [".mp3", ".cdg"]
is_payload(name) ==
    /\ \E i \in 1..Len(name) : <<name[i]>> = base_id_numeric
    /\ suffix(name) \in {".mp3", ".cdg"}

\* zip_ref.extractall(extract_dir): the names written before extraction ends.
\* A valid archive yields every entry; one whose first entry fails its CRC
\* yields that entry and raises; an unreadable one raises at once.
extractall(kind) ==
    CASE kind = "valid" -> Range(ArchiveEntries)
      [] kind = "badcrc" -> {ArchiveEntries[1]}
      [] OTHER -> {}

\* the rename loop over the directory listing `order`: (files, extracted_files)
RECURSIVE rename_loop(_, _, _)
rename_loop(order, files, acc) ==
    IF order = <<>> THEN [files |-> files, extracted |-> acc]
    ELSE LET f == Head(order) IN
         IF is_payload(f)
         THEN rename_loop(Tail(order), (files \ {f}) \cup {replace_id(f)},
                          Append(acc, replace_id(f)))
         ELSE rename_loop(Tail(order), files, acc)

\* the names of S, shortest first
RECURSIVE listing(_)
listing(S) ==
    IF S = {} THEN <<>>
    ELSE LET f == CHOOSE x \in S : \A y \in S : Len(x) <= Len(y)
         IN <<f>> \o listing(S \ {f})

reversed(s) == [i \in 1..Len(s) |-> s[Len(s) + 1 - i]]

\* extract_dir.iterdir(): the order is the file system's, which lists
\* shortest name first ("asc") or last ("desc")
iterdir(S, o) == IF o = "asc" THEN listing(S) ELSE reversed(listing(S))

\* handle_zip_extraction(zip_file_path, song_id, delete_zip) for directory
\* listing order `order`; `ok` is whether the unlink / rename of the archive
\* succeeds.  Result: the directory afterwards and the returned names.
handle_zip_extraction(kind, files, order, del, ok) ==
    LET r == rename_loop(order, files, <<>>) IN
    IF del
    THEN [files |-> r.files,
          zip |-> IF ok THEN "none" ELSE kind,
          bak |-> bak,
          extracted |-> r.extracted]
    ELSE [files |-> r.files,
          zip |-> IF ok THEN "none" ELSE kind,
          bak |-> bak \/ ok,
          extracted |-> IF ok THEN Append(r.extracted, file_name \o <<".bak">>)
                        ELSE r.extracted]

\* verify_zip_file without the unlink of its except branches
verify_zip_file_keeps(kind, ok) ==
    CASE kind \in {"valid", "badcrc"} -> [ret |-> "true", file |-> kind]
      [] kind = "none" -> [ret |-> MsgNoFile, file |-> "none"]
      [] OTHER -> [ret |-> "false", file |-> kind]

\* verify_zip_file(zip_file_path, song), lines 173-189: what it returns ("true",
\* "false", or the exception its unlink raises) and the file afterwards.
\* ZipFile() and testzip() raise for a missing or unreadable file, not for a
\* member that fails its CRC; the except branches unlink the file, which
\* raises when the file is not there or (`ok` false) cannot be removed.
verify_zip_file(kind, ok) ==
    CASE kind \in {"valid", "badcrc"} -> [ret |-> "true", file |-> kind]
      [] kind = "none" -> [ret |-> MsgNoFile, file |-> "none"]
      [] OTHER -> IF ok THEN [ret |-> "false", file |-> "none"]
                  ELSE [ret |-> MsgPermission, file |-> kind]

\* isinstance(e, requests.RequestException), by str(e)
is_request_exception(msg) == msg = MsgConn

backoff_factor == 1

\* line 128: backoff_factor * (2 ** (attempt - 1)) + random.uniform(0, 1)
backoff_sleep(k) == <<backoff_factor * 2^(k - 1), backoff_factor * 2^(k - 1) + 1>>

\* time.sleep(2) of get_direct_download_url, lines 40, 44, 49
resolve_sleep == <<2, 2>>

\* the except branches emitting download_failed on every failed attempt
AttemptFailed_emits_always(msg, listed, before) ==
    /\ last_error' = IF attempt = max_retries THEN msg ELSE ""
    /\ listed_only' = (listed_only /\ listed)
    /\ emitted' = Append(emitted, Failed(msg))
    /\ IF attempt = max_retries
       THEN pc' = "idle" /\ attempt' = attempt
       ELSE pc' = "resolve" /\ attempt' = attempt + 1
    /\ retry_count' = 0
    /\ slept' = IF attempt = max_retries \/ is_request_exception(msg)
                THEN before
                ELSE Append(before, backoff_sleep(attempt))

\* An except branch of the attempt loop, lines 115-129; `listed` says the
\* attempt failed in resolution, on the status or while streaming, `before`
\* is what the step has slept already.
AttemptFailed(msg, listed, before) ==
    /\ last_error' = IF attempt = max_retries THEN msg ELSE ""
    /\ listed_only' = (listed_only /\ listed)
    /\ emitted' = IF attempt = max_retries THEN Append(emitted, Failed(msg)) ELSE emitted
    /\ IF attempt = max_retries
       THEN pc' = "idle" /\ attempt' = attempt
       ELSE pc' = "resolve" /\ attempt' = attempt + 1
    /\ retry_count' = 0
    /\ slept' = IF attempt = max_retries \/ is_request_exception(msg)
                THEN before
                ELSE Append(before, backoff_sleep(attempt))

\* the bodies a server may hold for the song
BodyKinds == {"valid", "badzip", "badcrc"}

\* the options download_song is called with; delete_zip is read only when
\* unzip_songs is set
Options == {<<FALSE, FALSE>>, <<TRUE, FALSE>>, <<TRUE, TRUE>>}

\* download_song entered without the file_path.exists() test of line 63
download_song_no_check(u, d) ==
    /\ component = "engine"
    /\ pc = "idle"
    /\ calls < MaxCalls
    /\ calls' = calls + 1
    /\ unzip_songs' = u
    /\ delete_zip' = d
    /\ prev_verify' = (emitted = <<Failed(MsgVerify)>>)
    /\ dest_existed' = (zip_file # "none")
    /\ requested' = FALSE
    /\ last_error' = "" /\ listed_only' = TRUE
    /\ unzip_done' = FALSE /\ returned_files' = <<>>
    /\ stop_requested' = FALSE /\ slept' = <<>>
    /\ retry_count' = 0 /\ chunks_left' = 0
    /\ song' = song
    /\ emitted' = <<>>
    /\ attempt' = 1
    /\ pc' = "resolve"
    /\ UNCHANGED <<component, dialogVars, scraperVars, pageVars, streamVars, file_name, zip_file, bak, dir_files, dir_order, body>>

\* download_song(song, unzip_songs, delete_zip): entry, lines 55-68
download_song(u, d) ==
    /\ component = "engine"
    /\ pc = "idle"
    /\ calls < MaxCalls
    /\ calls' = calls + 1
    /\ unzip_songs' = u
    /\ delete_zip' = d
    /\ prev_verify' = (emitted = <<Failed(MsgVerify)>>)
    /\ dest_existed' = (zip_file # "none")
    /\ requested' = FALSE
    /\ last_error' = "" /\ listed_only' = TRUE
    /\ unzip_done' = FALSE /\ returned_files' = <<>>
    /\ stop_requested' = FALSE /\ slept' = <<>>
    /\ retry_count' = 0 /\ chunks_left' = 0
    /\ IF zip_file # "none"
       THEN /\ song' = [song EXCEPT !.file_path = <<file_name>>, !.downloaded = 1]
            /\ emitted' = <<Completed>>
            /\ attempt' = 0
            /\ pc' = "idle"
       ELSE /\ song' = song
            /\ emitted' = <<>>
            /\ attempt' = 1
            /\ pc' = "resolve"
    /\ UNCHANGED <<component, dialogVars, scraperVars, pageVars, streamVars, file_name, zip_file, bak, dir_files, dir_order, body>>

\* get_direct_download_url giving up one request later
ResolveRequest_one_more(outcome) ==
    /\ component = "engine"
    /\ pc = "resolve"
    /\ requested' = TRUE
    /\ IF outcome = "href"
       THEN /\ pc' = "get"
            /\ slept' = <<>>
            /\ UNCHANGED <<retry_count, attempt, emitted, last_error, listed_only>>
       ELSE IF retry_count + 1 < resolve_max_retries + 1
            THEN /\ retry_count' = retry_count + 1
                 /\ slept' = <<resolve_sleep>>
                 /\ UNCHANGED <<pc, attempt, emitted, last_error, listed_only>>
            ELSE AttemptFailed(MsgNoUrl, TRUE, <<resolve_sleep>>)
    /\ UNCHANGED <<component, dialogVars, scraperVars, pageVars, streamVars, song, file_name, zip_file, bak, dir_files, dir_order, unzip_songs,
                   delete_zip, body, chunks_left, calls, dest_existed,
                   prev_verify, unzip_done, returned_files, stop_requested>>

\* one request of get_direct_download_url, lines 34-51, and lines 74-75
ResolveRequest(outcome) ==
    /\ component = "engine"
    /\ pc = "resolve"
    /\ requested' = TRUE
    /\ IF outcome = "href"
       THEN /\ pc' = "get"
            /\ slept' = <<>>
            /\ UNCHANGED <<retry_count, attempt, emitted, last_error, listed_only>>
       ELSE IF retry_count + 1 < resolve_max_retries
            THEN /\ retry_count' = retry_count + 1
                 /\ slept' = <<resolve_sleep>>
                 /\ UNCHANGED <<pc, attempt, emitted, last_error, listed_only>>
            ELSE AttemptFailed(MsgNoUrl, TRUE, <<resolve_sleep>>)
    /\ UNCHANGED <<component, dialogVars, scraperVars, pageVars, streamVars, song, file_name, zip_file, bak, dir_files, dir_order, unzip_songs,
                   delete_zip, body, chunks_left, calls, dest_existed,
                   prev_verify, unzip_done, returned_files, stop_requested>>

\* the content-length headers a response may carry, in units of one chunk;
\* 0 stands for a missing header (total_length None); the body may be as
\* long as the header says or longer
ContentLengths == 0..(MaxChunks - 1)

\* len(chunk), the unit of length
ChunkSize == 1

\* no download_progress emitted by the chunk loop so far
NoProgress == -1

\* line 91: int(downloaded_length / total_length * 100)
percent(downloaded, total) == (downloaded * 100) \div total

\* the chunk loop is left: its locals are dead
LeaveChunkLoop ==
    /\ total_length' = 0 /\ downloaded_length' = 0 /\ progress_percent' = NoProgress

\* session.get(real_download_url, stream=True) and file_path.open('wb'),
\* lines 77-85; the body arrives in n chunks
TransferRequest(outcome, n) ==
    /\ component = "engine"
    /\ pc = "get"
    /\ requested' = TRUE
    /\ CASE outcome = "ok" ->
              /\ zip_file' = "partial"
              /\ chunks_left' = n
              /\ total_length' \in ContentLengths
              /\ downloaded_length' = 0
              /\ progress_percent' = NoProgress
              /\ pc' = "stream"
              /\ slept' = <<>>
              /\ UNCHANGED <<attempt, retry_count, emitted, last_error, listed_only>>
         [] outcome = "status" ->
              /\ AttemptFailed(MsgHttp, TRUE, <<>>)
              /\ UNCHANGED <<zip_file, chunks_left, streamVars>>
         [] OTHER ->
              /\ AttemptFailed(MsgConn, TRUE, <<>>)
              /\ UNCHANGED <<zip_file, chunks_left, streamVars>>
    /\ UNCHANGED <<component, dialogVars, scraperVars, pageVars, song, file_name, bak, dir_files, dir_order, unzip_songs, delete_zip,
                   body, calls, dest_existed, prev_verify, unzip_done,
                   returned_files, stop_requested>>

\* one turn of "for chunk in response.iter_content(...)", lines 86-92, or the
\* end of the with block
StreamChunk(outcome) ==
    /\ component = "engine"
    /\ pc = "stream"
    /\ CASE outcome = "chunk" ->
              /\ chunks_left > 0
              /\ chunks_left' = chunks_left - 1
              /\ downloaded_length' = downloaded_length + ChunkSize
              /\ progress_percent' = IF total_length # 0
                                     THEN percent(downloaded_length', total_length)
                                     ELSE progress_percent
              /\ total_length' = total_length
              /\ slept' = <<>>
              /\ UNCHANGED <<pc, zip_file, body, attempt, retry_count, emitted,
                             last_error, listed_only>>
         [] outcome = "end" ->
              /\ chunks_left = 0
              /\ body' \in (IF body = "unknown" THEN BodyKinds ELSE {body})
              /\ zip_file' = body'
              /\ pc' = "post"
              /\ LeaveChunkLoop
              /\ slept' = <<>>
              /\ UNCHANGED <<chunks_left, attempt, retry_count, emitted,
                             last_error, listed_only>>
         [] outcome = "reset" ->
              /\ chunks_left > 0
              /\ AttemptFailed(MsgConn, TRUE, <<>>)
              /\ LeaveChunkLoop
              /\ UNCHANGED <<chunks_left, zip_file, body>>
         [] OTHER ->
              /\ chunks_left > 0
              /\ AttemptFailed(MsgIO, TRUE, <<>>)
              /\ LeaveChunkLoop
              /\ UNCHANGED <<chunks_left, zip_file, body>>
    /\ UNCHANGED <<component, dialogVars, scraperVars, pageVars, song, file_name, bak, dir_files, dir_order, unzip_songs, delete_zip,
                   requested, calls, dest_existed, prev_verify, unzip_done,
                   returned_files, stop_requested>>

\* a failed verification counted as a failed attempt
VerificationFailed_retries == AttemptFailed(MsgVerify, FALSE, <<>>)

\* lines 107-110: verify_zip_file returned False
VerificationFailed ==
    /\ emitted' = Append(emitted, Failed(MsgVerify))
    /\ pc' = "idle"
    /\ slept' = <<>>
    /\ UNCHANGED <<attempt, retry_count, last_error, listed_only>>

\* lines 94-113: extraction, the song's fields, verification, the terminal event
PostProcess ==
    /\ component = "engine"
    /\ pc = "post"
    /\ \E ok \in BOOLEAN, o \in (IF dir_order = "unknown" THEN {"asc", "desc"} ELSE {dir_order}) :
       \E unzip \in {unzip_songs /\ suffix(file_name) = ".zip"} :
       \E files \in {dir_files \cup extractall(zip_file)} :
       \E order \in {iterdir(files, o)} :
       \E x \in {IF unzip
                 THEN handle_zip_extraction(zip_file, files, order, delete_zip, ok)
                 ELSE [files |-> dir_files, zip |-> zip_file, bak |-> bak,
                       extracted |-> <<file_name>>]} :
       \E v \in {verify_zip_file(x.zip, ok)} :
          /\ dir_order' = IF unzip THEN o ELSE dir_order
          /\ unzip \/ o = "asc" \/ dir_order # "unknown"
          /\ dir_files' = x.files
          /\ bak' = x.bak
          /\ zip_file' = v.file
          /\ returned_files' = IF unzip THEN x.extracted ELSE returned_files
          /\ unzip_done' = (unzip_done \/ (unzip /\ zip_file = "valid" /\ x.zip = "none"))
          /\ song' = [extracted |-> IF unzip THEN 1 ELSE 0,
                      file_path |-> x.extracted,
                      downloaded |-> IF v.ret = "false" THEN 0 ELSE 1]
          /\ CASE v.ret = "true" ->
                    /\ emitted' = Append(emitted, Completed)
                    /\ pc' = "idle"
                    /\ slept' = <<>>
                    /\ UNCHANGED <<attempt, retry_count, last_error, listed_only>>
               [] v.ret = "false" -> VerificationFailed
               [] OTHER -> AttemptFailed(v.ret, FALSE, <<>>)
    /\ UNCHANGED <<component, dialogVars, scraperVars, pageVars, streamVars, file_name, unzip_songs, delete_zip, body, chunks_left,
                   requested, calls, dest_existed, prev_verify, stop_requested>>

\* the task's stop flag is set while download_song streams; no line of
\* SongDownloader reads it
RequestStop ==
    /\ component = "engine"
    /\ pc = "stream"
    /\ chunks_left > 0
    /\ ~stop_requested
    /\ stop_requested' = TRUE
    /\ slept' = slept
    /\ UNCHANGED <<component, dialogVars, scraperVars, pageVars, streamVars, pc, song, file_name, zip_file, bak, dir_files, dir_order, unzip_songs,
                   delete_zip, attempt, retry_count, body, chunks_left, emitted,
                   requested, last_error, listed_only, calls, dest_existed,
                   prev_verify, unzip_done, returned_files>>

InitDialogVars ==
    /\ active_downloads = <<>>
    /\ downloads_table = <<>>
    /\ timers = <<>>
    /\ threads = <<>>
    /\ signals = <<>>
    /\ disk = [s \in Songs |-> "none"]
    /\ status = [s \in Songs |-> "Queued"]

\* the scraper before any call, for the behaviours of the other components
InitScraperVars ==
    /\ page_result = [p \in 1..TotalPages |-> <<>>]
    /\ last_song_id = "None" /\ validate = FALSE
    /\ in_flight = {} /\ done_queue = <<>> /\ consumed = <<>>
    /\ all_songs = <<>> /\ found_last_song = FALSE
    /\ scr_pc = "returned"

\* scrape_songs_on_page before any call, for the behaviours of the other
\* components
InitPageVars ==
    /\ purchased_songs = <<>> /\ row_i = 1 /\ songs = <<>> /\ page_pc = "returned"

InitEngineVars ==
    /\ pc = "idle"
    /\ song = [downloaded |-> 0, extracted |-> 0, file_path |-> <<>>]
    /\ file_name \in {FileNameZip, FileNameBare}
    /\ zip_file \in {"none", "valid"}
    /\ bak = FALSE
    /\ dir_files \in {{}, {OtherItemFile}}
    /\ dir_order = "unknown"
    /\ body = "unknown"
    /\ unzip_songs = FALSE /\ delete_zip = FALSE
    /\ attempt = 0 /\ retry_count = 0
    /\ chunks_left = 0
    /\ emitted = <<>>
    /\ requested = FALSE
    /\ last_error = "" /\ listed_only = TRUE
    /\ calls = 0 /\ dest_existed = FALSE /\ prev_verify = FALSE
    /\ unzip_done = FALSE /\ returned_files = <<>>
    /\ stop_requested = FALSE
    /\ slept = <<>>
    /\ total_length = 0 /\ downloaded_length = 0 /\ progress_percent = NoProgress

NextEngine ==
    \/ \E o \in Options : download_song(o[1], o[2])
    \/ \E o \in {"href", "nohdr", "exc"} : ResolveRequest(o)
    \/ \E o \in {"ok", "status", "exc"}, n \in 1..MaxChunks : TransferRequest(o, n)
    \/ \E o \in {"chunk", "end", "reset", "oserror"} : StreamChunk(o)
    \/ PostProcess
    \/ RequestStop

\* the engine before any call, for the behaviours of the other components
InitEngineIdle ==
    /\ InitEngineVars
    /\ file_name = FileNameZip /\ zip_file = "none" /\ dir_files = {}

InitEngine ==
    component = "engine" /\ InitEngineVars /\ InitDialogVars /\ InitScraperVars /\ InitPageVars

SpecEngine == InitEngine /\ [][NextEngine]_vars

\* a step of the running call: a request answered or raising, a chunk read or
\* the stream ending or raising, the file operations done
CallStep ==
    \/ \E o \in {"href", "nohdr", "exc"} : ResolveRequest(o)
    \/ \E o \in {"ok", "status", "exc"}, n \in 1..MaxChunks : TransferRequest(o, n)
    \/ \E o \in {"chunk", "end", "reset", "oserror"} : StreamChunk(o)
    \/ PostProcess

\* one call of download_song, from any initial directory
NextEngineOnce ==
    \/ calls = 0 /\ \E o \in Options : download_song(o[1], o[2])
    \/ CallStep
    \/ RequestStop

\* every request and every response stream ends, and time.sleep returns: a
\* running call always takes its next step
SpecEngineFair == InitEngine /\ [][NextEngineOnce]_vars /\ WF_vars(CallStep)

----------------------------------------------------------------------------
(* SingleDownloadThread: threads[t] is the t-th thread created *)

engineIdle == UNCHANGED <<component, engineVars, scraperVars, pageVars>>

\* no response held: before the login request and after login has returned
NoResponse == [raised |-> FALSE, status_code |-> 0, text |-> <<>>]

\* SingleDownloadThread.__init__, lines 22-29, and start()
NewThread(s) ==
    [song |-> s, pc |-> "login", stop_flag |-> FALSE, left |-> 0, emits |-> 0, out |-> "none",
     response |-> NoResponse,
     total_length |-> 0, downloaded_length |-> 0, progress_percent |-> NoProgress]

isRunning(t) == threads[t].pc # "done"

\* run returns: the thread is over and the locals of its chunk loop are dead
returned(th) ==
    [th EXCEPT !.pc = "done", !.total_length = 0, !.downloaded_length = 0,
               !.progress_percent = NoProgress]

\* self.finished.emit / self.failed.emit, after which run returns
EmitAndReturn(t, sig) ==
    /\ threads' = [threads EXCEPT ![t] = [returned(@) EXCEPT !.emits = @ + 1, !.out = sig]]
    /\ signals' = Append(signals, [sig |-> sig, song |-> threads[t].song])

\* What session.post(login_url, ...) may give: a response with a status and
\* a text (a sequence of words), or an exception (`raised`)
LoginResponses ==
    {[raised |-> FALSE, status_code |-> c, text |-> x] :
        c \in {200, 403}, x \in {<<"My", "Account", "Logout">>, <<"Sign", "in">>}}
       \cup {[raised |-> TRUE, status_code |-> 0, text |-> <<>>]}

\* str.lower() of a word
lower(w) ==
    CASE w = "Logout" -> "logout"
      [] w = "My" -> "my"
      [] w = "Account" -> "account"
      [] w = "Sign" -> "sign"
      [] OTHER -> w

\* "logout" in response.text.lower()
has_logout(text) == \E i \in 1..Len(text) : lower(text[i]) = "logout"

\* the test of SongScraper.login without the status code
login_succeeds_on_text(resp) == has_logout(resp.text)

\* SongScraper.login, scraper.py line 24: the test on the response
login_succeeds(resp) == resp.status_code = 200 /\ has_logout(resp.text)

\* run, line 36, and scraper.py line 23: the login request; when it raises,
\* login re-raises and run emits failed and returns
ThreadLogin(t, resp) ==
    /\ component = "dialog"
    /\ threads[t].pc = "login"
    /\ IF resp.raised
       THEN EmitAndReturn(t, "failed")
       ELSE /\ threads' = [threads EXCEPT ![t].pc = "login_check", ![t].response = resp]
            /\ signals' = signals
    /\ UNCHANGED <<active_downloads, downloads_table, timers, disk, status>>
    /\ engineIdle

\* scraper.py lines 24-31 and run, lines 37-41: login returns, or raises and
\* run emits failed and returns
ThreadLoginCheck(t) ==
    /\ component = "dialog"
    /\ threads[t].pc = "login_check"
    /\ IF login_succeeds(threads[t].response)
       THEN /\ threads' = [threads EXCEPT ![t].pc = "resolve", ![t].response = NoResponse]
            /\ signals' = signals
       ELSE /\ threads' = [threads EXCEPT ![t].pc = "done", ![t].emits = @ + 1,
                                          ![t].out = "failed", ![t].response = NoResponse]
            /\ signals' = Append(signals, [sig |-> "failed", song |-> threads[t].song])
    /\ UNCHANGED <<active_downloads, downloads_table, timers, disk, status>>
    /\ engineIdle

\* run, lines 48-53: the request for the X-File-Href header
ThreadResolve(t, outcome) ==
    /\ component = "dialog"
    /\ threads[t].pc = "resolve"
    /\ IF outcome = "href"
       THEN threads' = [threads EXCEPT ![t].pc = "get"] /\ signals' = signals
       ELSE EmitAndReturn(t, "failed")
    /\ UNCHANGED <<active_downloads, downloads_table, timers, disk, status>>
    /\ engineIdle

\* run, lines 63-79: the streamed GET, raise_for_status, open(file_path, 'wb')
ThreadGet(t, outcome, n) ==
    /\ component = "dialog"
    /\ threads[t].pc = "get"
    /\ IF outcome = "ok"
       THEN /\ \E cl \in ContentLengths :
                  threads' = [threads EXCEPT ![t].pc = "stream", ![t].left = n,
                                             ![t].total_length = cl]
            /\ disk' = [disk EXCEPT ![threads[t].song] = "partial"]
            /\ signals' = signals
       ELSE /\ EmitAndReturn(t, "failed")
            /\ disk' = disk
    /\ UNCHANGED <<active_downloads, downloads_table, timers, status>>
    /\ engineIdle

\* run, lines 80-105: one turn of the chunk loop, or its end
ThreadChunk(t, outcome) ==
    /\ component = "dialog"
    /\ threads[t].pc = "stream"
    /\ CASE outcome = "chunk" ->
              /\ threads[t].left > 0
              /\ IF threads[t].stop_flag
                 THEN threads' = [threads EXCEPT ![t] = returned(@)]
                 ELSE threads' =
                         [threads EXCEPT
                             ![t].left = @ - 1,
                             ![t].downloaded_length = @ + ChunkSize,
                             ![t].progress_percent =
                                 IF threads[t].total_length # 0
                                 THEN percent(threads[t].downloaded_length + ChunkSize,
                                              threads[t].total_length)
                                 ELSE @]
              /\ UNCHANGED <<signals, disk>>
         [] outcome = "end" ->
              /\ threads[t].left = 0
              /\ disk' = [disk EXCEPT ![threads[t].song] = "full"]
              /\ EmitAndReturn(t, "finished")
         [] OTHER ->
              /\ threads[t].left > 0
              /\ EmitAndReturn(t, "failed")
              /\ disk' = disk
    /\ UNCHANGED <<active_downloads, downloads_table, timers, status>>
    /\ engineIdle

----------------------------------------------------------------------------
(* CurrentDownloadsDialog: rows are numbered from 0, as in the table widget *)

NewRow(s) == [song |-> s, status |-> "Downloading...", retry |-> "none"]

\* self.downloads_table.item(row, 4).setText(text), when the item exists
setStatus(tbl, row, text) ==
    IF row < Len(tbl) THEN [tbl EXCEPT ![row + 1].status = text] ELSE tbl

\* self.downloads_table.setCellWidget(row, 5, widget): the Retry button of
\* song `b`, or an empty widget ("none"); no row, no widget
setAction(tbl, row, b) ==
    IF row < Len(tbl) THEN [tbl EXCEPT ![row + 1].retry = b] ELSE tbl

\* self.downloads_table.removeRow(row)
removeRow(tbl, row) == SubSeq(tbl, 1, row) \o SubSeq(tbl, row + 2, Len(tbl))

\* self.active_downloads[song_id] = {...}
withEntry(s, e) ==
    [x \in (DOMAIN active_downloads) \cup {s} |-> IF x = s THEN e ELSE active_downloads[x]]

\* del self.active_downloads[song_id]
withoutEntry(s) == [x \in (DOMAIN active_downloads) \ {s} |-> active_downloads[x]]

\* add_download, lines 151-207
add_download(s) ==
    /\ component = "dialog"
    /\ Len(threads) < MaxThreads
    /\ IF s \in DOMAIN active_downloads
       THEN UNCHANGED <<active_downloads, downloads_table, threads>>
       ELSE /\ downloads_table' = Append(downloads_table, NewRow(s))
            /\ threads' = Append(threads, NewThread(s))
            /\ active_downloads' = withEntry(s, [row |-> Len(downloads_table),
                                                 thread |-> Len(threads) + 1])
    /\ status' = IF s \in DOMAIN active_downloads THEN status
                 ELSE [status EXCEPT ![s] = "InProgress"]
    /\ UNCHANGED <<timers, signals, disk>>
    /\ engineIdle

\* download_finished, lines 229-248, run for the oldest undelivered signal
download_finished ==
    /\ component = "dialog"
    /\ signals # <<>>
    /\ Head(signals).sig = "finished"
    /\ signals' = Tail(signals)
    /\ LET s == Head(signals).song IN
       IF s \notin DOMAIN active_downloads
       THEN UNCHANGED <<active_downloads, downloads_table, timers>>
       ELSE LET row == active_downloads[s].row IN
            /\ downloads_table' = setStatus(downloads_table, row, "Completed")
            /\ active_downloads' = withoutEntry(s)
            /\ timers' = Append(timers, <<s, row>>)
    /\ status' = IF Head(signals).song \in DOMAIN active_downloads
                 THEN [status EXCEPT ![Head(signals).song] = "Completed"] ELSE status
    /\ UNCHANGED <<threads, disk>>
    /\ engineIdle

\* download_failed, lines 250-273, run for the oldest undelivered signal
download_failed ==
    /\ component = "dialog"
    /\ signals # <<>>
    /\ Head(signals).sig = "failed"
    /\ signals' = Tail(signals)
    /\ LET s == Head(signals).song IN
       IF s \notin DOMAIN active_downloads
       THEN UNCHANGED downloads_table
       ELSE LET row == active_downloads[s].row IN
            downloads_table' = setAction(setStatus(downloads_table, row, "Failed"), row, s)
    /\ status' = IF Head(signals).song \in DOMAIN active_downloads
                 THEN [status EXCEPT ![Head(signals).song] = "Failed"] ELSE status
    /\ UNCHANGED <<active_downloads, timers, threads, disk>>
    /\ engineIdle

\* retry_download leaving the Retry button in the action cell
retry_download_keeps_button(s) ==
    /\ component = "dialog"
    /\ \E r \in 1..Len(downloads_table) : downloads_table[r].retry = s
    /\ Len(threads) < MaxThreads
    /\ IF s \notin DOMAIN active_downloads
       THEN UNCHANGED <<active_downloads, downloads_table, threads>>
       ELSE LET row == active_downloads[s].row IN
            /\ downloads_table' =
                  setStatus(downloads_table, row, "Downloading...")
            /\ threads' = Append(threads, NewThread(s))
            /\ active_downloads' = [active_downloads EXCEPT ![s].thread = Len(threads) + 1]
    /\ status' = IF s \in DOMAIN active_downloads
                 THEN [status EXCEPT ![s] = "InProgress"] ELSE status
    /\ UNCHANGED <<timers, signals, disk>>
    /\ engineIdle

\* retry_download, lines 275-321, run by a click on a Retry button of song s
retry_download(s) ==
    /\ component = "dialog"
    /\ \E r \in 1..Len(downloads_table) : downloads_table[r].retry = s
    /\ Len(threads) < MaxThreads
    /\ IF s \notin DOMAIN active_downloads
       THEN UNCHANGED <<active_downloads, downloads_table, threads>>
       ELSE LET row == active_downloads[s].row IN
            /\ downloads_table' =
                  setAction(setStatus(downloads_table, row, "Downloading..."), row, "none")
            /\ threads' = Append(threads, NewThread(s))
            /\ active_downloads' = [active_downloads EXCEPT ![s].thread = Len(threads) + 1]
    /\ status' = IF s \in DOMAIN active_downloads
                 THEN [status EXCEPT ![s] = "InProgress"] ELSE status
    /\ UNCHANGED <<timers, signals, disk>>
    /\ engineIdle

\* remove_completed_row, lines 323-331, run by the oldest pending timer
remove_completed_row ==
    /\ component = "dialog"
    /\ timers # <<>>
    /\ timers' = Tail(timers)
    /\ LET row == Head(timers)[2] IN
       IF row < Len(downloads_table)
       THEN /\ downloads_table' = removeRow(downloads_table, row)
            /\ active_downloads' =
                  [x \in DOMAIN active_downloads |->
                      IF active_downloads[x].row > row
                      THEN [active_downloads[x] EXCEPT !.row = @ - 1]
                      ELSE active_downloads[x]]
       ELSE UNCHANGED <<active_downloads, downloads_table>>
    /\ UNCHANGED <<threads, signals, disk, status>>
    /\ engineIdle

\* closeEvent, lines 333-341: stop() for the running thread of every entry
closeEvent ==
    /\ component = "dialog"
    /\ \E x \in DOMAIN active_downloads :
          isRunning(active_downloads[x].thread) /\ ~threads[active_downloads[x].thread].stop_flag
    /\ threads' = [t \in 1..Len(threads) |->
                     IF /\ \E x \in DOMAIN active_downloads : active_downloads[x].thread = t
                        /\ isRunning(t)
                     THEN [threads[t] EXCEPT !.stop_flag = TRUE]
                     ELSE threads[t]]
    /\ UNCHANGED <<active_downloads, downloads_table, timers, signals, disk, status>>
    /\ engineIdle

NextDialog ==
    \/ \E s \in Songs : add_download(s)
    \/ \E s \in Songs : retry_download(s)
    \/ download_finished
    \/ download_failed
    \/ remove_completed_row
    \/ closeEvent
    \/ \E t \in 1..Len(threads), resp \in LoginResponses : ThreadLogin(t, resp)
    \/ \E t \in 1..Len(threads) : ThreadLoginCheck(t)
    \/ \E t \in 1..Len(threads), o \in {"href", "nohdr"} : ThreadResolve(t, o)
    \/ \E t \in 1..Len(threads), o \in {"ok", "exc"}, n \in 1..MaxChunks : ThreadGet(t, o, n)
    \/ \E t \in 1..Len(threads), o \in {"chunk", "end", "exc"} : ThreadChunk(t, o)

InitDialog ==
    component = "dialog" /\ InitEngineIdle /\ InitDialogVars /\ InitScraperVars /\ InitPageVars

SpecDialog == InitDialog /\ [][NextDialog]_vars

----------------------------------------------------------------------------
(* SongScraper.scrape_all_pages.  A song of the accumulated list is the    *)
(* <<page, row>> it was scraped from; its id is page_result[page][row].    *)

othersIdle == UNCHANGED <<component, engineVars, dialogVars, pageVars>>

\* the ids a row may carry: the sentinel's and another song's
Ids == {"S", "x"}

RECURSIVE SeqsUpTo(_, _)
SeqsUpTo(S, n) ==
    IF n = 0 THEN {<<>>}
    ELSE SeqsUpTo(S, n - 1) \cup {Append(q, x) : q \in SeqsUpTo(S, n - 1), x \in S}

\* line 123 without "and not validate"
stops_ignoring_validate(id) == last_song_id # "None" /\ id = last_song_id

\* line 123: last_song_id and song["song_id"] == last_song_id and not validate
stops(id) == last_song_id # "None" /\ id = last_song_id /\ ~validate

\* the inner loop passing over the sentinel instead of breaking
RECURSIVE scan_skips(_, _, _)
scan_skips(p, i, acc) ==
    IF i > Len(page_result[p]) THEN [songs |-> acc, found |-> FALSE]
    ELSE IF stops(page_result[p][i]) THEN scan_skips(p, i + 1, acc)
    ELSE scan_skips(p, i + 1, Append(acc, <<p, i>>))

\* lines 122-126: the inner loop over the songs of page p, from row i
RECURSIVE scan(_, _, _)
scan(p, i, acc) ==
    IF i > Len(page_result[p]) THEN [songs |-> acc, found |-> FALSE]
    ELSE IF stops(page_result[p][i]) THEN [songs |-> acc, found |-> TRUE]
    ELSE scan(p, i + 1, Append(acc, <<p, i>>))

\* a future completes: process_page(page) has returned
FetchComplete(p) ==
    /\ component = "scraper"
    /\ p \in in_flight
    /\ in_flight' = in_flight \ {p}
    /\ done_queue' = Append(done_queue, p)
    /\ UNCHANGED <<page_result, last_song_id, validate, consumed, all_songs,
                   found_last_song, scr_pc>>
    /\ othersIdle

\* lines 118-128: one turn of "for future in as_completed(futures)"
ConsumeResult ==
    /\ component = "scraper"
    /\ scr_pc = "loop"
    /\ done_queue # <<>>
    /\ LET p == Head(done_queue)
           r == scan(p, 1, all_songs)
       IN /\ all_songs' = r.songs
          /\ found_last_song' = r.found
          /\ consumed' = Append(consumed, p)
          /\ scr_pc' = IF r.found \/ Len(consumed) + 1 = TotalPages THEN "exit" ELSE "loop"
    /\ done_queue' = Tail(done_queue)
    /\ UNCHANGED <<page_result, last_song_id, validate, in_flight>>
    /\ othersIdle

\* the end of the with block (the executor waits for its futures), line 133
ReturnSongs ==
    /\ component = "scraper"
    /\ scr_pc = "exit"
    /\ in_flight = {}
    /\ scr_pc' = "returned"
    /\ UNCHANGED <<page_result, last_song_id, validate, in_flight, done_queue, consumed,
                   all_songs, found_last_song>>
    /\ othersIdle

\* scrape_all_pages(last_song_id, validate) has submitted every page, line 117
InitScraper ==
    /\ component = "scraper"
    /\ InitEngineIdle /\ InitDialogVars /\ InitPageVars
    /\ page_result \in [1..TotalPages -> SeqsUpTo(Ids, MaxRows)]
    /\ last_song_id \in {"None", "S"}
    /\ validate \in BOOLEAN
    /\ in_flight = 1..TotalPages
    /\ done_queue = <<>> /\ consumed = <<>>
    /\ all_songs = <<>> /\ found_last_song = FALSE
    /\ scr_pc = "loop"

NextScraper ==
    \/ \E p \in 1..TotalPages : FetchComplete(p)
    \/ ConsumeResult
    \/ ReturnSongs

SpecScraper == InitScraper /\ [][NextScraper]_vars

----------------------------------------------------------------------------
(* SongScraper.scrape_songs_on_page.  A row is what BeautifulSoup finds in *)
(* it: the text of the title anchor, the href of the download anchor and   *)
(* the data-songid of the vote button, each "None" when the element is     *)
(* not there.                                                              *)

None == "None"

\* the song_id of a row without vote button (Python's None)
NoId == <<>>

Rows ==
    [title : {"Song", None}, download_link : {"/dl", None}, data_songid : {"7", None}]

\* lines 74-76: f"KV{song_id_val}" if song_id_val else None
song_id_of(row) == IF row.data_songid # None THEN <<"KV", row.data_songid>> ELSE NoId

\* lines 63-74: song_td.find("a").text and song_row.find("a", ...).get("href")
\* raise AttributeError when the anchor is not there
row_raises(row) == row.title = None \/ row.download_link = None

\* lines 78-79: the dict appended for a row
song_of(row) ==
    [song_id |-> song_id_of(row), title |-> row.title, download_url |-> row.download_link]

\* lines 62-79: one turn of "for song_row in purchased_songs"; an exception
\* leaves the loop for the except branch of lines 85-88, which returns []
ParseRow ==
    /\ component = "page"
    /\ page_pc = "loop"
    /\ row_i <= Len(purchased_songs)
    /\ IF row_raises(purchased_songs[row_i])
       THEN /\ songs' = <<>>
            /\ page_pc' = "returned"
            /\ row_i' = row_i
       ELSE /\ songs' = Append(songs, song_of(purchased_songs[row_i]))
            /\ row_i' = row_i + 1
            /\ page_pc' = page_pc
    /\ UNCHANGED <<component, engineVars, dialogVars, scraperVars, purchased_songs>>

\* lines 81-83: return songs, has_next_page
ReturnPage ==
    /\ component = "page"
    /\ page_pc = "loop"
    /\ row_i > Len(purchased_songs)
    /\ page_pc' = "returned"
    /\ UNCHANGED <<component, engineVars, dialogVars, scraperVars, purchased_songs, row_i, songs>>

\* scrape_songs_on_page(page_number) has fetched and parsed the page, line 59
InitPage ==
    /\ component = "page"
    /\ InitEngineIdle /\ InitDialogVars /\ InitScraperVars
    /\ purchased_songs \in SeqsUpTo(Rows, MaxRows)
    /\ row_i = 1 /\ songs = <<>> /\ page_pc = "loop"

NextPage == ParseRow \/ ReturnPage

SpecPage == InitPage /\ [][NextPage]_vars

----------------------------------------------------------------------------
(* The components together: a behaviour exercises one of them *)

Init == InitEngine \/ InitDialog \/ InitScraper \/ InitPage

Next == NextEngine \/ NextDialog \/ NextScraper \/ NextPage

Spec == Init /\ [][Next]_vars

----------------------------------------------------------------------------
(* Properties of SongDownloader.download_song *)

Returned == component = "engine" /\ calls > 0 /\ pc = "idle"

\* C1: when the destination does not exist and every attempt fails in URL
\* resolution, on the status or while streaming, no event is emitted while
\* fewer than 5 attempts have failed, and the call ends after exactly 5
\* attempts with one download_failed carrying the 5th attempt's message.
C1_RetryBudget ==
    (component = "engine" /\ calls > 0 /\ ~dest_existed /\ listed_only) =>
        /\ pc # "idle" => emitted = <<>>
        /\ (pc = "idle" /\ Completed \notin Range(emitted)
                        /\ Failed(MsgVerify) \notin Range(emitted)) =>
              /\ attempt = 5
              /\ emitted = <<Failed(last_error)>>
              /\ last_error \in {MsgNoUrl, MsgHttp, MsgConn, MsgIO}

\* five attempts failed, the last one on a connection error
C1_Witness ==
    /\ Returned /\ ~dest_existed /\ listed_only
    /\ attempt = 5 /\ emitted = <<Failed(MsgConn)>>

\* C3: a call that finds the destination on disk emits download_finished,
\* sets downloaded and file_path = [file_name] and issues no request; so
\* does a second such call.
C3_ShortCircuit ==
    (component = "engine" /\ calls > 0 /\ dest_existed) =>
        /\ pc = "idle"
        /\ emitted = <<Completed>>
        /\ song.downloaded = 1
        /\ song.file_path = <<file_name>>
        /\ ~requested

\* the second of two calls that both found the file of the initial directory
C3_Witness ==
    /\ Returned /\ calls = 2 /\ dest_existed
    /\ body = "unknown" /\ zip_file = "valid"
    /\ emitted = <<Completed>>

\* C4: the step that extracts a completely written valid archive (unzip set,
\* .zip destination) and removes or renames it ends the call with
\* download_finished, extracted = 1, downloaded = 1 and file_path the names
\* extraction returned.
C4_UnzipCompletes ==
    [][(component = "engine" /\ ~unzip_done /\ unzip_done') =>
          /\ pc' = "idle"
          /\ emitted' = <<Completed>>
          /\ song'.extracted = 1 /\ song'.downloaded = 1
          /\ song'.file_path = returned_files']_vars

\* C10: when the call ends on a failed verification the file is gone, and
\* the next call finds no file and issues requests before it returns.
C10_VerifyDeletes ==
    component = "engine" =>
        /\ (pc = "idle" /\ emitted = <<Failed(MsgVerify)>>) => zip_file = "none"
        /\ prev_verify => (~dest_existed /\ (pc = "idle" => requested))

\* a call after a failed verification is streaming the archive again
C10_Witness ==
    /\ component = "engine" /\ prev_verify /\ calls = 2
    /\ pc = "stream" /\ requested /\ ~dest_existed

\* C11: verify_zip_file returns true only for an archive whose integrity
\* check reports no bad entry; so a call whose transfer delivered an archive
\* with an entry failing its CRC, and that left it in place, has not ended
\* with download_finished.
C11_BadEntryRejected ==
    (Returned /\ ~dest_existed /\ zip_file = "badcrc") => Completed \notin Range(emitted)

\* the names handle_zip_extraction is to rename to: the renamed payload
\* entries of the archive
RenamedEntries(kind) == {replace_id(e) : e \in {x \in extractall(kind) : is_payload(x)}}

\* C12: the step that runs handle_zip_extraction leaves every file that was
\* in the directory before under its name, and returns only the new names of
\* the archive's payload entries and the .zip.bak name.
C12_RenamesOnlyExtracted ==
    [][(component = "engine" /\ pc = "post" /\ unzip_songs /\ suffix(file_name) = ".zip") =>
          /\ dir_files \subseteq dir_files'
          /\ Range(returned_files') \subseteq
                RenamedEntries(zip_file) \cup {file_name \o <<".bak">>}]_vars

\* C14: whenever download_song has returned, the song's file_path is
\* non-empty exactly when its downloaded flag is set.
C14_PathsIffDownloaded ==
    Returned => ((song.file_path # <<>>) <=> (song.downloaded = 1))

\* C15: between attempts k and k+1 (k in 1..4) download_song sleeps
\* 2^(k-1) plus a jitter in [0, 1], whatever exception failed attempt k; it
\* does not sleep so after the 5th attempt.
C15_BackoffBetweenAttempts ==
    [][component = "engine" =>
          /\ (attempt >= 1 /\ attempt' = attempt + 1) =>
                \E i \in 1..Len(slept') : slept'[i] = <<2^(attempt - 1), 2^(attempt - 1) + 1>>
          /\ (attempt = 5 /\ pc # "idle" /\ pc' = "idle") =>
                \A i \in 1..Len(slept') : slept'[i] = <<2, 2>>]_vars

\* C16: when verification returns false for the completely written file (the
\* step verifies an unreadable archive and removes it), downloaded is 0, the
\* one event is download_failed and the call has ended on attempt k; a call
\* that has ended issues no request: the next step is a new call.
C16_VerificationFailureEnds ==
    [][component = "engine" =>
          /\ (/\ pc = "post" /\ ~(unzip_songs /\ suffix(file_name) = ".zip")
              /\ zip_file = "badzip" /\ zip_file' = "none") =>
                /\ song'.downloaded = 0
                /\ emitted' = <<Failed(MsgVerify)>>
                /\ pc' = "idle" /\ attempt' = attempt
          /\ pc = "idle" => (calls' = calls + 1 /\ ~requested')]_vars

\* a call ended by a failed verification on its second attempt
C16_Witness ==
    /\ Returned /\ attempt = 2
    /\ emitted = <<Failed(MsgVerify)>> /\ song.downloaded = 0
    /\ requested /\ zip_file = "none"

\* C17: get_direct_download_url makes at most 3 requests; a response with
\* the header ends it without a further request or sleep; it fails only
\* after its 3rd request; after every request that fails it sleeps 2.
C17_ResolveBudget ==
    [][(component = "engine" /\ pc = "resolve") =>
          /\ retry_count + 1 <= 3
          /\ pc' = "get" => (slept' = <<>> /\ retry_count' = retry_count)
          /\ (pc' = "resolve" /\ attempt' = attempt) =>
                (retry_count' = retry_count + 1 /\ slept' = << <<2, 2>> >>)
          /\ (attempt' # attempt \/ pc' = "idle") =>
                (retry_count + 1 = 3 /\ Len(slept') >= 1 /\ slept'[1] = <<2, 2>>)]_vars

\* the first attempt's resolution has failed on its 3rd request
C17_Witness ==
    /\ component = "engine" /\ pc = "resolve"
    /\ attempt = 2 /\ retry_count = 0 /\ requested
    /\ slept = << <<2, 2>>, <<1, 2>> >>

\* C18: when get_direct_download_url fails (its 3rd request brings no
\* header) the download ends with download_failed and makes no further
\* request.
C18_ResolveFailureStops ==
    [][(component = "engine" /\ pc = "resolve" /\ retry_count = 2 /\ pc' # "get") =>
          (pc' = "idle" /\ emitted' = <<Failed(MsgNoUrl)>>)]_vars

\* C24: a call that finds only a partial transfer at the destination does
\* not end with download_finished and downloaded set.
C24_NoCompletedOnPartial ==
    (Returned /\ dest_existed /\ zip_file = "partial") =>
        (Completed \notin Range(emitted) /\ song.downloaded = 0)

\* C23: a running call of download_song returns, and a call that has
\* returned has emitted exactly one of download_finished and download_failed.
C23_Terminates ==
    /\ [](Returned => Len(emitted) = 1)
    /\ (component = "engine" /\ pc # "idle") ~> (pc = "idle")

\* a call has returned after 5 resolutions of 3 requests each
C23_Witness ==
    /\ Returned /\ calls = 1 /\ attempt = 5 /\ ~dest_existed
    /\ emitted = <<Failed(MsgNoUrl)>>
    /\ slept = << <<2, 2>> >>

----------------------------------------------------------------------------
(* Properties of both emitters of terminal events *)

\* C2: one call of download_song, and one run of SingleDownloadThread.run,
\* emits at most one of Completed and Failed for its item, on every path.
C2_OneTerminalEvent ==
    /\ component = "engine" => Len(emitted) <= 1
    /\ component = "dialog" => \A t \in 1..Len(threads) : threads[t].emits <= 1

\* a call that ended on a failed verification, having emitted its one event
C2_Witness ==
    /\ Returned /\ ~dest_existed
    /\ zip_file = "none" /\ body = "badzip"
    /\ emitted = <<Failed(MsgVerify)>>

\* C7: once the stop flag is set while chunks remain to be read, no further
\* chunk is written, no Completed event is emitted, the item is not marked
\* downloaded and the partial file stays; in SingleDownloadThread.run and in
\* SongDownloader.download_song.
C7_Cancellation ==
    [][/\ (component = "engine" /\ stop_requested /\ pc = "stream" /\ chunks_left > 0) =>
             /\ chunks_left' = chunks_left
             /\ Completed \notin Range(emitted')
             /\ song'.downloaded = song.downloaded
       /\ component = "dialog" =>
             \A t \in 1..Len(threads) :
                (threads[t].stop_flag /\ threads[t].pc = "stream" /\ threads[t].left > 0) =>
                   /\ threads'[t].left = threads[t].left
                   /\ threads'[t].out # "finished"
                   /\ disk'[threads[t].song] = disk[threads[t].song]]_vars

\* C22: every progress event of a transfer carries a percent in 0..100,
\* whatever the chunks and the content-length header, in download_song and
\* in SingleDownloadThread.run.
C22_PercentInRange ==
    /\ component = "engine" => progress_percent \in {NoProgress} \cup 0..100
    /\ component = "dialog" =>
          \A t \in 1..Len(threads) : threads[t].progress_percent \in {NoProgress} \cup 0..100

----------------------------------------------------------------------------
(* Properties of CurrentDownloadsDialog *)

\* the configured maximum of simultaneous downloads (10 unless configured)
max_concurrent_downloads == 2

Streaming == {t \in 1..Len(threads) : threads[t].pc = "stream"}

\* C5: the number of downloads streaming bytes at the same time is at most
\* the configured maximum, for downloads started by add_download and
\* retry_download.
C5_ConcurrencyBound ==
    component = "dialog" => Cardinality(Streaming) <= max_concurrent_downloads

Transitions ==
    { <<"Queued", "InProgress">>, <<"InProgress", "Completed">>,
      <<"InProgress", "Failed">>, <<"Failed", "InProgress">>,
      <<"Completed", "InProgress">> }

\* C6: an item's state changes only along Queued -> InProgress ->
\* {Completed, Failed} and Failed -> InProgress; after Completed only a new
\* entry (add_download of an item without entry) changes it; a thread is
\* started only by add_download for an item without entry or by
\* retry_download for an item whose latest thread ended with failed, and it
\* is a fresh SingleDownloadThread that becomes the entry's thread.
C6_Transitions ==
    [][component = "dialog" =>
          /\ \A s \in Songs :
                status'[s] # status[s] =>
                   /\ <<status[s], status'[s]>> \in Transitions
                   /\ status[s] \in {"Queued", "Completed"} =>
                         /\ s \notin DOMAIN active_downloads
                         /\ s \in DOMAIN active_downloads'
          /\ Len(threads') > Len(threads) =>
                LET n == Len(threads')
                    s == threads'[n].song
                IN /\ n = Len(threads) + 1
                   /\ threads'[n] = NewThread(s)
                   /\ s \in DOMAIN active_downloads' /\ active_downloads'[s].thread = n
                   /\ status'[s] = "InProgress"
                   /\ \/ s \notin DOMAIN active_downloads
                      \/ /\ s \in DOMAIN active_downloads
                         /\ status[s] = "Failed"
                         /\ threads[active_downloads[s].thread].pc = "done"
                         /\ threads[active_downloads[s].thread].out = "failed"]_vars

\* a retried item: its entry's thread is a later one than a thread of the
\* same item that emitted failed, and the item is in progress again
C6_Witness ==
    /\ component = "dialog"
    /\ \E s \in DOMAIN active_downloads :
          /\ status[s] = "InProgress"
          /\ threads[active_downloads[s].thread].out = "none"
          /\ \E t \in 1..Len(threads) :
                /\ t < active_downloads[s].thread
                /\ threads[t].song = s /\ threads[t].out = "failed"

\* a response that logs in: status 200 and "logout" in the text, in any case
GoodLogin(resp) ==
    /\ resp.status_code = 200
    /\ \E i \in 1..Len(resp.text) : resp.text[i] \in {"logout", "Logout", "LOGOUT"}

Requesting == {"resolve", "get", "stream"}

C25_RowsIdentifyItems ==
    component = "dialog" =>
        \A s \in DOMAIN active_downloads :
           /\ active_downloads[s].row < Len(downloads_table)
           /\ downloads_table[active_downloads[s].row + 1].song = s

\* C26: an entry whose thread has ended, and whose signal (if any) the dialog
\* has handled, is in the Failed state.
C26_NoStuckEntry ==
    component = "dialog" =>
        \A s \in DOMAIN active_downloads :
           (/\ threads[active_downloads[s].thread].pc = "done"
            /\ \A i \in 1..Len(signals) : signals[i].song # s) =>
              status[s] = "Failed"

----------------------------------------------------------------------------
(* Properties of SongScraper.scrape_all_pages *)

ScrapeReturned == component = "scraper" /\ scr_pc = "returned"

\* every song of the catalog, as <<page, row>>
Catalog == {x \in (1..TotalPages) \X (1..MaxRows) : x[2] <= Len(page_result[x[1]])}

SentinelRows == {x \in Catalog : page_result[x[1]][x[2]] = last_song_id}

\* catalog order: page number, then row
precedes(a, b) == a[1] < b[1] \/ (a[1] = b[1] /\ a[2] < b[2])

\* C8: with a last_song_id and validate = False the result holds only items
\* that precede the sentinel in catalog order, for every completion order.
C8_OnlyBeforeSentinel ==
    (ScrapeReturned /\ last_song_id # "None" /\ ~validate) =>
        \A k \in 1..Len(all_songs) : \A z \in SentinelRows : precedes(all_songs[k], z)

\* C9: with validate = True, or without last_song_id, the result holds every
\* item of every page exactly once, for every completion order and wherever
\* an item with id last_song_id is.
C9_FullSet ==
    (ScrapeReturned /\ (validate \/ last_song_id = "None")) =>
        /\ Range(all_songs) = Catalog
        /\ Len(all_songs) = Cardinality(Catalog)

\* a validating scrape of a catalog with the sentinel on two pages, the
\* pages taken out of page order
C9_Witness ==
    /\ ScrapeReturned /\ validate /\ last_song_id = "S"
    /\ page_result[1] = <<"x", "S">> /\ page_result[2] = <<"S", "x">>
    /\ consumed = <<3, 1, 2>>
    /\ Len(all_songs) = Len(page_result[3]) + 4

\* the rows of page p in front of its first row with id last_song_id
RowsBefore(p) ==
    LET hits == {i \in 1..Len(page_result[p]) : page_result[p][i] = last_song_id}
        n == IF hits = {} THEN Len(page_result[p])
             ELSE (CHOOSE i \in hits : \A j \in hits : i <= j) - 1
    IN [i \in 1..n |-> <<p, i>>]

\* C19: with a last_song_id and validate = False the accumulated list never
\* holds an item with that id; a consumed page adds its rows in front of its
\* first such item and nothing else; once the item was met nothing is added.
C19_StopsAtFirstEncounter ==
    [][(component = "scraper" /\ last_song_id # "None" /\ ~validate) =>
          /\ \A k \in 1..Len(all_songs') :
                page_result[all_songs'[k][1]][all_songs'[k][2]] # last_song_id
          /\ found_last_song => all_songs' = all_songs
          /\ Len(consumed') > Len(consumed) =>
                all_songs' = all_songs \o RowsBefore(consumed'[Len(consumed')])
          /\ Len(consumed') = Len(consumed) => all_songs' = all_songs]_vars

\* the sentinel was met on page 2, in front of another row, after page 1 was
\* consumed and while page 3 had songs to give
C19_Witness ==
    /\ ScrapeReturned /\ last_song_id = "S" /\ ~validate
    /\ page_result[1] = <<"x", "x">> /\ page_result[2] = <<"S", "x">>
    /\ page_result[3] # <<>>
    /\ consumed = <<1, 2>> /\ found_last_song
    /\ all_songs = << <<1, 1>>, <<1, 2>> >>

\* C20: with a last_song_id and validate = False the result holds every item
\* that precedes the sentinel in catalog order, also those of pages whose
\* fetch finished after the sentinel was met on another page.
C20_InFlightPagesContribute ==
    (ScrapeReturned /\ last_song_id # "None" /\ ~validate) =>
        \A x \in Catalog :
           (\A z \in SentinelRows : precedes(x, z)) => x \in Range(all_songs)

----------------------------------------------------------------------------
(* Properties of SongScraper.scrape_songs_on_page *)

\* a row with its title, its download link and its item id
WellFormed(row) == row.title # None /\ row.download_link # None /\ row.data_songid # None

RECURSIVE WellFormedSongs(_)
WellFormedSongs(rows) ==
    IF rows = <<>> THEN <<>>
    ELSE IF WellFormed(Head(rows))
         THEN <<song_of(Head(rows))>> \o WellFormedSongs(Tail(rows))
         ELSE WellFormedSongs(Tail(rows))

\* C21: scrape_songs_on_page returns the songs of the well-formed rows of
\* the page, in row order, and nothing else: a row without title, download
\* link or item id is skipped alone, and no returned song lacks its song_id.
C21_SkipsMalformedRows ==
    (component = "page" /\ page_pc = "returned") =>
        songs = WellFormedSongs(purchased_songs)

====
